---- MODULE Spec2Model ----
(***************************************************************************)
(* Model of src/server.js: the product-template configurator.  The store   *)
(* `templates` is a process-wide JavaScript object; five POST handlers     *)
(* mutate or read it.  Every handler is one action: it records the request *)
(* in `req`, the HTTP response in `res`, and updates the store.  Requests  *)
(* are handled one at a time: EndRequest ends one before the next starts.  *)
(***************************************************************************)
EXTENDS Integers, Sequences, FiniteSets, TLC

(* ----------------------------- bounds ---------------------------------- *)
\* Number of store-changing (acknowledged) mutation requests explored.
MaxOps == 3
\* Longest rule sequence explored for a template.
MaxRules == 2

(* ------------------------- input alphabets ----------------------------- *)
\* "__proto__" is a key every JavaScript object inherits from
\* Object.prototype; "t1" is an ordinary identifier.
TemplateIds == {"t1", "__proto__"}
\* Choice ids of rules and selections: "1" is an integer-like property name,
\* "a" an ordinary one.
ChoiceIds == {"a", "1"}
\* Category "a" shares its name with choice "a" (strings are opaque);
\* "__proto__" is the inherited accessor of the `options` object.
CategoryIds == {"a", "__proto__"}
RuleTypes == {"REQUIRES", "INCOMPATIBLE_WITH", "OTHER"}
BasePrices == {0, 5, 100}

Option(c, n, d) == [choice_str_id |-> c, name |-> n, price_delta |-> d]
\* Option mappings as the caller writes them: key/value pairs in insertion
\* order, keys distinct.
OptionMaps ==
    { <<>>,
      <<Option("a", "A", 10)>>,
      <<Option("a", "A", 10), Option("1", "One", 20)>>,
      <<Option("2", "Two", 5), Option("1", "One", 20)>> }

\* Selection maps: partial functions key -> value; a value need not echo
\* its key.
SelectionMaps ==
    UNION { [K -> ChoiceIds] : K \in SUBSET ChoiceIds }

(* ------------------------- JavaScript values --------------------------- *)
Null == <<>>
EmptyObject == [k \in {} |-> Null]

\* body with the fields in F removed / set to the empty string
Drop(body, F) == [f \in DOMAIN body \ F |-> body[f]]
Blank(body, F) == [f \in DOMAIN body |-> IF f \in F THEN "" ELSE body[f]]

RuleFields == {"rule_type", "primary_choice_str_id", "secondary_choice_str_id"}
RuleBody(ty, p, s) ==
    [rule_type |-> ty, primary_choice_str_id |-> p, secondary_choice_str_id |-> s]
\* (primary, secondary) pairs: both directions of a pair and a self-reference.
RulePairs == { <<"a", "1">>, <<"1", "a">>, <<"a", "a">> }
GoodRuleBodies ==
    { RuleBody(ty, ps[1], ps[2]) : ty \in RuleTypes, ps \in RulePairs }
BadRuleBodies ==
    { Drop(RuleBody("REQUIRES", "a", "1"), {f}) : f \in RuleFields } \cup
    { Blank(RuleBody("REQUIRES", "a", "1"), {f}) : f \in RuleFields } \cup
    { EmptyObject }
RuleBodies == GoodRuleBodies \cup BadRuleBodies

PriceBodies == { [base_price |-> p] : p \in BasePrices } \cup { EmptyObject }
OptionsBodies == { [options |-> m] : m \in OptionMaps } \cup { EmptyObject }
AvailBodies == { [currentSelections |-> s] : s \in SelectionMaps } \cup { EmptyObject }
ValidateBodies == { [selections |-> s] : s \in SelectionMaps } \cup { EmptyObject }

VARIABLES
    templates,   \* own properties of the `templates` object: id -> template
    protoProps,  \* the properties this program has written on Object.prototype
    req,         \* the request being handled, NoRequest between requests
    res,         \* its response
    acked,       \* ids for which a mutation has been acknowledged (history)
    ruleLog,     \* per id, the bodies of its acknowledged addCompatibilityRule requests (history)
    addedChoices, \* per id, the choice ids of its acknowledged addOptions requests (history)
    nOps         \* number of store-changing requests so far

vars == <<templates, protoProps, req, res, acked, ruleLog, addedChoices, nOps>>


(* ------------------------- the store (line 8) -------------------------- *)
\* The key of `templates = {}` through which Object.prototype is reached.
InheritedKeys == {"__proto__"}

\* !templates[id] is false for own keys and for inherited keys alike.
HasTemplate(store, id) == id \in DOMAIN store \/ id \in InheritedKeys

\* templates[id], for an id with HasTemplate: the own property, else
\* Object.prototype (of which only the properties this program writes matter).
TemplateOf(store, id) == IF id \in DOMAIN store THEN store[id] ELSE protoProps

\* A plain object as property lookups see it: its own properties, and
\* those of Object.prototype it does not shadow.
Inherit(object) ==
    [f \in DOMAIN object \cup DOMAIN protoProps |->
        IF f \in DOMAIN object THEN object[f] ELSE protoProps[f]]

NewTemplate == [compatibilityRules |-> <<>>, options |-> EmptyObject, base_price |-> 0]

\* templates[id] = value
Put(store, id, value) ==
    [k \in DOMAIN store \cup {id} |-> IF k = id THEN value ELSE store[k]]

\* Mutant of EnsureTemplate: the shell is written without the existence test.
EnsureTemplate_Always(store, id) == Put(store, id, NewTemplate)

\* if (!templates[id]) templates[id] = { compatibilityRules: [], options: {}, base_price: 0 }
EnsureTemplate(store, id) ==
    IF ~HasTemplate(store, id) THEN Put(store, id, NewTemplate) ELSE store

(* ---------------------- validateRequestBody ---------------------------- *)
\* JavaScript truthiness of body[field] for the value types of each field:
\* undefined, "" and 0 are falsy, every object (also {}) is truthy.
Truthy(body, field) ==
    /\ field \in DOMAIN body
    /\ CASE field = "base_price" -> body[field] # 0
         [] field \in {"options", "currentSelections", "selections"} -> TRUE
         [] OTHER -> body[field] # ""

validateRequestBody(requiredFields, body) ==
    LET missingFields == SelectSeq(requiredFields, LAMBDA field : ~Truthy(body, field))
    IN  IF Len(missingFields) > 0
        THEN <<"Missing required fields: ", missingFields>>
        ELSE Null

Request(op, t, cat, body) ==
    [op |-> op, template_str_id |-> t, category |-> cat, body |-> body]
Response(status, body) == [status |-> status, body |-> body]
\* An exception thrown inside a handler: the framework answers 500.
InternalError == Response(500, "TypeError")
NoRequest == Request("none", "", "", EmptyObject)
NoResponse == Response(0, "none")

(* ------------------- 1. Add Compatibility Rule ------------------------- *)
\* The rule object pushed (lines 33-37).
RuleOf(body) ==
    [rule_type |-> body.rule_type,
     primary_choice_str_id |-> body.primary_choice_str_id,
     secondary_choice_str_id |-> body.secondary_choice_str_id]

\* Mutant of AddCompatibilityRule: the template is rebuilt around the extended
\* rule array, without its options and base price.
AddCompatibilityRule_Rebuilds(t, ownBody) ==
    /\ req = NoRequest
    /\ nOps < MaxOps
    /\ req' = Request("compatibility-rules", t, "", ownBody)
    /\ LET body == Inherit(ownBody)
           validationError ==
               validateRequestBody(<<"rule_type", "primary_choice_str_id",
                                     "secondary_choice_str_id">>, body)
           store == EnsureTemplate(templates, t)
           template == TemplateOf(store, t)
       IN  IF validationError # Null
           THEN /\ res' = Response(400, [error |-> validationError])
                /\ UNCHANGED <<templates, protoProps, acked, ruleLog, addedChoices, nOps>>
           ELSE IF "compatibilityRules" \notin DOMAIN template
           THEN /\ res' = InternalError
                /\ UNCHANGED <<templates, protoProps, acked, ruleLog, addedChoices, nOps>>
           ELSE /\ Len(template.compatibilityRules) < MaxRules
                /\ templates' =
                      Put(store, t, [NewTemplate EXCEPT !.compatibilityRules =
                                         Append(template.compatibilityRules, RuleOf(body))])
                /\ res' = Response(200, [message |-> "Compatibility rule added successfully."])
                /\ acked' = acked \cup {t}
                /\ ruleLog' = [ruleLog EXCEPT ![t] = Append(@, ownBody)]
                /\ nOps' = nOps + 1
                /\ UNCHANGED <<protoProps, addedChoices>>

AddCompatibilityRule(t, ownBody) ==
    /\ req = NoRequest
    /\ nOps < MaxOps
    /\ req' = Request("compatibility-rules", t, "", ownBody)
    /\ LET body == Inherit(ownBody)
           validationError ==
               validateRequestBody(<<"rule_type", "primary_choice_str_id",
                                     "secondary_choice_str_id">>, body)
           store == EnsureTemplate(templates, t)
           template == TemplateOf(store, t)
       IN  IF validationError # Null
           THEN /\ res' = Response(400, [error |-> validationError])
                /\ UNCHANGED <<templates, protoProps, acked, ruleLog, addedChoices, nOps>>
           ELSE IF "compatibilityRules" \notin DOMAIN template
           THEN /\ res' = InternalError
                /\ UNCHANGED <<templates, protoProps, acked, ruleLog, addedChoices, nOps>>
           ELSE /\ Len(template.compatibilityRules) < MaxRules
                /\ templates' =
                      Put(store, t, [template EXCEPT !.compatibilityRules =
                                         Append(@, RuleOf(body))])
                /\ res' = Response(200, [message |-> "Compatibility rule added successfully."])
                /\ acked' = acked \cup {t}
                /\ ruleLog' = [ruleLog EXCEPT ![t] = Append(@, ownBody)]
                /\ nOps' = nOps + 1
                /\ UNCHANGED <<protoProps, addedChoices>>

(* --------------------- 4. Set Base Price ------------------------------- *)
SetBasePrice(t, ownBody) ==
    /\ req = NoRequest
    /\ nOps < MaxOps
    /\ req' = Request("set-base-price", t, "", ownBody)
    /\ LET body == Inherit(ownBody)
           validationError == validateRequestBody(<<"base_price">>, body)
           store == EnsureTemplate(templates, t)
       IN  IF validationError # Null
           THEN /\ res' = Response(400, [error |-> validationError])
                /\ UNCHANGED <<templates, protoProps, acked, ruleLog, addedChoices, nOps>>
           ELSE /\ IF t \in DOMAIN store
                   THEN /\ templates' =
                              Put(store, t, [store[t] EXCEPT !.base_price = body.base_price])
                        /\ UNCHANGED protoProps
                   ELSE /\ protoProps' = Put(protoProps, "base_price", body.base_price)
                        /\ UNCHANGED templates
                /\ res' = Response(200, [message |-> "Base price set successfully."])
                /\ acked' = acked \cup {t}
                /\ nOps' = nOps + 1
                /\ UNCHANGED <<ruleLog, addedChoices>>

(* ------------------ 5. Add Options for a Category ---------------------- *)
\* The choice ids (keys) of an option mapping.
ChoiceIdsOf(options) == { options[i].choice_str_id : i \in 1..Len(options) }

AddOptions(t, cat, ownBody) ==
    /\ req = NoRequest
    /\ nOps < MaxOps
    /\ req' = Request("options", t, cat, ownBody)
    /\ LET body == Inherit(ownBody)
           validationError == validateRequestBody(<<"options">>, body)
           store == EnsureTemplate(templates, t)
           template == TemplateOf(store, t)
       IN  IF validationError # Null
           THEN /\ res' = Response(400, [error |-> validationError])
                /\ UNCHANGED <<templates, protoProps, acked, ruleLog, addedChoices, nOps>>
           ELSE IF "options" \notin DOMAIN template
           THEN /\ res' = InternalError
                /\ UNCHANGED <<templates, protoProps, acked, ruleLog, addedChoices, nOps>>
           ELSE /\ templates' =
                      Put(store, t, [template EXCEPT !.options =
                                         Put(@, cat, body.options)])
                /\ res' = Response(200, [message |-> "Options added successfully."])
                /\ acked' = acked \cup {t}
                /\ addedChoices' =
                      [addedChoices EXCEPT ![t] = @ \cup ChoiceIdsOf(body.options)]
                /\ nOps' = nOps + 1
                /\ UNCHANGED <<protoProps, ruleLog>>

(* --------------------- JavaScript object order ------------------------- *)
\* The array index a property name denotes, -1 when it is no integer-like name.
ArrayIndex(key) == CASE key = "1" -> 1 [] key = "2" -> 2 [] OTHER -> -1

RECURSIVE InsertByIndex(_, _)
\* `sorted` (ascending by ArrayIndex) with entry e put at its place
InsertByIndex(e, sorted) ==
    IF sorted = <<>> THEN <<e>>
    ELSE IF ArrayIndex(e.choice_str_id) < ArrayIndex(Head(sorted).choice_str_id)
         THEN <<e>> \o sorted
         ELSE <<Head(sorted)>> \o InsertByIndex(e, Tail(sorted))

RECURSIVE SortByIndex(_)
SortByIndex(entries) ==
    IF entries = <<>> THEN <<>>
    ELSE InsertByIndex(Head(entries), SortByIndex(Tail(entries)))

\* Mutant of ObjectEntries: plain insertion order.
ObjectEntries_Insertion(object) == object

\* Object.entries(object): the integer-like keys in ascending numeric order
\* first, then the other keys in insertion order.
ObjectEntries(object) ==
    SortByIndex(SelectSeq(object, LAMBDA e : ArrayIndex(e.choice_str_id) >= 0))
        \o SelectSeq(object, LAMBDA e : ArrayIndex(e.choice_str_id) < 0)

(* ------------- 2. Get Available Options for a Category ----------------- *)
\* selections[id] === id
Selects(selections, id) == id \in DOMAIN selections /\ selections[id] = id

\* Mutant of RulePasses: the INCOMPATIBLE_WITH branch repeats the REQUIRES test.
RulePasses_SameTest(rule, currentSelections) ==
    IF /\ rule.rule_type \in {"REQUIRES", "INCOMPATIBLE_WITH"}
       /\ Selects(currentSelections, rule.primary_choice_str_id)
    THEN Selects(currentSelections, rule.secondary_choice_str_id)
    ELSE TRUE

\* Mutant of RulePasses: every type other than INCOMPATIBLE_WITH is handled
\* as REQUIRES.
RulePasses_DefaultRequires(rule, currentSelections) ==
    IF /\ rule.rule_type = "INCOMPATIBLE_WITH"
       /\ Selects(currentSelections, rule.primary_choice_str_id)
    THEN ~Selects(currentSelections, rule.secondary_choice_str_id)
    ELSE IF Selects(currentSelections, rule.primary_choice_str_id)
    THEN Selects(currentSelections, rule.secondary_choice_str_id)
    ELSE TRUE

\* The callback given to compatibilityRules.every (lines 59-67).
RulePasses(rule, currentSelections) ==
    IF /\ rule.rule_type = "REQUIRES"
       /\ Selects(currentSelections, rule.primary_choice_str_id)
    THEN Selects(currentSelections, rule.secondary_choice_str_id)
    ELSE IF /\ rule.rule_type = "INCOMPATIBLE_WITH"
            /\ Selects(currentSelections, rule.primary_choice_str_id)
    THEN ~Selects(currentSelections, rule.secondary_choice_str_id)
    ELSE TRUE

\* Mutant of KeepsOption: `some` in place of `every`.
KeepsOption_Some(template, entry, currentSelections) ==
    \E i \in 1..Len(template.compatibilityRules) :
        RulePasses(template.compatibilityRules[i], currentSelections)

\* The filter callback (lines 58-68); it does not read the entry it is given.
KeepsOption(template, entry, currentSelections) ==
    \A i \in 1..Len(template.compatibilityRules) :
        RulePasses(template.compatibilityRules[i], currentSelections)

\* The map callback (lines 69-73).  A field the entry's value does not have
\* is undefined and is left out of the JSON response.
OptionSummary(entry) ==
    [f \in DOMAIN entry \cap {"name", "choice_str_id", "price_delta"} |-> entry[f]]

RECURSIVE MapSummaries(_)
MapSummaries(entries) ==
    IF entries = <<>> THEN <<>>
    ELSE <<OptionSummary(Head(entries))>> \o MapSummaries(Tail(entries))

\* The entries of a value that is not an option mapping: one entry per
\* enumerable property, whose value is a primitive without name or
\* price_delta.
PrimitiveEntries(keys) == [i \in 1..Len(keys) |-> [choice_str_id |-> keys[i]]]

\* template.options[category] || {} (lines 56, 106).  `options` starts as {},
\* so the key "__proto__" is its prototype accessor: writing an object to it
\* (line 156) replaces the prototype, reading it returns the prototype, and
\* every key that is not an own category is looked up in the prototype: a
\* choice id of the written mapping yields that choice's {name, price_delta}.
CategoryOptions(template, category) ==
    LET options == template.options
        hasPrototype == "__proto__" \in DOMAIN options
    IN  IF category = "__proto__"
        THEN IF hasPrototype THEN options["__proto__"]
             ELSE IF "base_price" \in DOMAIN protoProps
                  THEN PrimitiveEntries(<<"base_price">>)
                  ELSE <<>>
        ELSE IF category \in DOMAIN options THEN options[category]
        ELSE IF /\ hasPrototype
                /\ \E i \in 1..Len(options["__proto__"]) :
                       options["__proto__"][i].choice_str_id = category
             THEN PrimitiveEntries(<<"name", "price_delta">>)
             ELSE <<>>

validOptions(template, category, currentSelections) ==
    MapSummaries(SelectSeq(ObjectEntries(CategoryOptions(template, category)),
                           LAMBDA entry : KeepsOption(template, entry, currentSelections)))

\* Mutant of AvailableOptionsResponse: the template is looked up before the
\* body is validated.
AvailableOptionsResponse_NotFoundFirst(store, t, cat, ownBody) ==
    LET body == Inherit(ownBody)
        validationError == validateRequestBody(<<"currentSelections">>, body)
    IN  IF ~HasTemplate(store, t) THEN Response(404, [error |-> "Template not found."])
        ELSE IF validationError # Null THEN Response(400, [error |-> validationError])
        ELSE IF "options" \notin DOMAIN TemplateOf(store, t) THEN InternalError
        ELSE Response(200, validOptions(TemplateOf(store, t), cat, body.currentSelections))

\* The handler's answer (lines 44-75).
AvailableOptionsResponse(store, t, cat, ownBody) ==
    LET body == Inherit(ownBody)
        validationError == validateRequestBody(<<"currentSelections">>, body)
    IN  IF validationError # Null THEN Response(400, [error |-> validationError])
        ELSE IF ~HasTemplate(store, t) THEN Response(404, [error |-> "Template not found."])
        ELSE IF "options" \notin DOMAIN TemplateOf(store, t) THEN InternalError
        ELSE Response(200, validOptions(TemplateOf(store, t), cat, body.currentSelections))

\* Mutant of GetAvailableOptions: the handler creates a missing template
\* first, as the mutation handlers do.
GetAvailableOptions_Creates(t, cat, body) ==
    /\ req = NoRequest
    /\ req' = Request("available-options", t, cat, body)
    /\ templates' = EnsureTemplate(templates, t)
    /\ res' = AvailableOptionsResponse(templates', t, cat, body)
    /\ UNCHANGED <<protoProps, acked, ruleLog, addedChoices, nOps>>

GetAvailableOptions(t, cat, body) ==
    /\ req = NoRequest
    /\ req' = Request("available-options", t, cat, body)
    /\ res' = AvailableOptionsResponse(templates, t, cat, body)
    /\ UNCHANGED <<templates, protoProps, acked, ruleLog, addedChoices, nOps>>

(* ---------- 3. Validate Full Configuration and Get Price --------------- *)
RequiresMessage(rule) ==
    <<"\"", rule.primary_choice_str_id, "\" requires \"", rule.secondary_choice_str_id, "\"">>
IncompatibleMessage(rule) ==
    <<"\"", rule.primary_choice_str_id, "\" is incompatible with \"",
      rule.secondary_choice_str_id, "\"">>

\* Mutant of RuleErrors: INCOMPATIBLE_WITH no longer tests its secondary choice.
RuleErrors_NoSecondary(rule, selections) ==
    (IF /\ rule.rule_type = "REQUIRES"
        /\ Selects(selections, rule.primary_choice_str_id)
        /\ ~Selects(selections, rule.secondary_choice_str_id)
     THEN <<RequiresMessage(rule)>> ELSE <<>>)
    \o
    (IF /\ rule.rule_type = "INCOMPATIBLE_WITH"
        /\ Selects(selections, rule.primary_choice_str_id)
     THEN <<IncompatibleMessage(rule)>> ELSE <<>>)

\* Mutant of RuleErrors: REQUIRES no longer tests that its primary choice is
\* selected.
RuleErrors_NoPrimary(rule, selections) ==
    (IF /\ rule.rule_type = "REQUIRES"
        /\ ~Selects(selections, rule.secondary_choice_str_id)
     THEN <<RequiresMessage(rule)>> ELSE <<>>)
    \o
    (IF /\ rule.rule_type = "INCOMPATIBLE_WITH"
        /\ Selects(selections, rule.primary_choice_str_id)
        /\ Selects(selections, rule.secondary_choice_str_id)
     THEN <<IncompatibleMessage(rule)>> ELSE <<>>)

\* Mutant of RuleErrors: the INCOMPATIBLE_WITH branch compares the secondary
\* key's value with the primary id.
RuleErrors_WrongOperand(rule, selections) ==
    (IF /\ rule.rule_type = "REQUIRES"
        /\ Selects(selections, rule.primary_choice_str_id)
        /\ ~Selects(selections, rule.secondary_choice_str_id)
     THEN <<RequiresMessage(rule)>> ELSE <<>>)
    \o
    (IF /\ rule.rule_type = "INCOMPATIBLE_WITH"
        /\ Selects(selections, rule.primary_choice_str_id)
        /\ rule.secondary_choice_str_id \in DOMAIN selections
        /\ selections[rule.secondary_choice_str_id] = rule.primary_choice_str_id
     THEN <<IncompatibleMessage(rule)>> ELSE <<>>)

\* The errors one rule pushes (the forEach callback, lines 96-107).
RuleErrors(rule, selections) ==
    (IF /\ rule.rule_type = "REQUIRES"
        /\ Selects(selections, rule.primary_choice_str_id)
        /\ ~Selects(selections, rule.secondary_choice_str_id)
     THEN <<RequiresMessage(rule)>> ELSE <<>>)
    \o
    (IF /\ rule.rule_type = "INCOMPATIBLE_WITH"
        /\ Selects(selections, rule.primary_choice_str_id)
        /\ Selects(selections, rule.secondary_choice_str_id)
     THEN <<IncompatibleMessage(rule)>> ELSE <<>>)

RECURSIVE CollectErrors_Reversed(_, _)
\* Mutant of CollectErrors: errors are put at the front (unshift for push).
CollectErrors_Reversed(rules, selections) ==
    IF rules = <<>> THEN <<>>
    ELSE CollectErrors_Reversed(Tail(rules), selections) \o RuleErrors(Head(rules), selections)

RECURSIVE CollectErrors(_, _)
\* The rule loop (lines 93-107): the errors of every rule, in rule order.
CollectErrors(rules, selections) ==
    IF rules = <<>> THEN <<>>
    ELSE RuleErrors(Head(rules), selections) \o CollectErrors(Tail(rules), selections)

\* template.options[selection]?.[selections[selection]]: the entries found
\* (none or one) under category `selection` with choice selections[selection].
PricedOption(template, selections, selection) ==
    SelectSeq(CategoryOptions(template, selection),
              LAMBDA e : e.choice_str_id = selections[selection])

RECURSIVE AddDeltas(_, _, _, _)
\* The forEach over Object.keys(selections) (lines 113-118).
AddDeltas(totalPrice, template, selections, keys) ==
    IF keys = {} THEN totalPrice
    ELSE LET selection == CHOOSE k \in keys : TRUE
             option == PricedOption(template, selections, selection)
         IN  AddDeltas(IF option # <<>> THEN totalPrice + option[1].price_delta
                       ELSE totalPrice,
                       template, selections, keys \ {selection})

\* Mutant of BasePriceOrZero: the total starts from 0.
BasePriceOrZero_Zero(template) == 0

\* template.base_price || 0
BasePriceOrZero(template) ==
    IF "base_price" \in DOMAIN template THEN template.base_price ELSE 0

ValidateResponse(store, t, ownBody) ==
    LET body == Inherit(ownBody)
        validationError == validateRequestBody(<<"selections">>, body)
    IN  IF validationError # Null THEN Response(400, [error |-> validationError])
        ELSE IF ~HasTemplate(store, t) THEN Response(404, [error |-> "Template not found."])
        ELSE IF "compatibilityRules" \notin DOMAIN TemplateOf(store, t) THEN InternalError
        ELSE LET template == TemplateOf(store, t)
                 errors == CollectErrors(template.compatibilityRules, body.selections)
             IN  IF Len(errors) > 0
                 THEN Response(400, [is_valid |-> FALSE, errors |-> errors])
                 ELSE Response(200,
                          [is_valid |-> TRUE,
                           total_price |-> AddDeltas(BasePriceOrZero(template), template,
                                                     body.selections, DOMAIN body.selections),
                           selections |-> body.selections])

ValidateConfiguration(t, body) ==
    /\ req = NoRequest
    /\ req' = Request("validate-configuration", t, "", body)
    /\ res' = ValidateResponse(templates, t, body)
    /\ UNCHANGED <<templates, protoProps, acked, ruleLog, addedChoices, nOps>>

(* ------------------------- specification ------------------------------- *)
\* The response has been sent; the server waits for the next request.
EndRequest ==
    /\ req # NoRequest
    /\ req' = NoRequest
    /\ res' = NoResponse
    /\ UNCHANGED <<templates, protoProps, acked, ruleLog, addedChoices, nOps>>

Init ==
    /\ templates = EmptyObject
    /\ protoProps = EmptyObject
    /\ req = NoRequest
    /\ res = NoResponse
    /\ acked = {}
    /\ ruleLog = [t \in TemplateIds |-> <<>>]
    /\ addedChoices = [t \in TemplateIds |-> {}]
    /\ nOps = 0

Next ==
    \/ \E t \in TemplateIds, body \in RuleBodies : AddCompatibilityRule(t, body)
    \/ \E t \in TemplateIds, cat \in CategoryIds, body \in AvailBodies :
           GetAvailableOptions(t, cat, body)
    \/ \E t \in TemplateIds, body \in ValidateBodies : ValidateConfiguration(t, body)
    \/ \E t \in TemplateIds, body \in PriceBodies : SetBasePrice(t, body)
    \/ \E t \in TemplateIds, cat \in CategoryIds, body \in OptionsBodies :
           AddOptions(t, cat, body)
    \/ EndRequest

Spec == Init /\ [][Next]_vars

(* ======================================================================= *)
(* Properties                                                              *)
(* ======================================================================= *)
\* Vocabulary of the properties, stated without the handlers' operators.
IsSelected(S, id) == id \in DOMAIN S /\ S[id] = id
NotSelected(S, id) == id \notin DOMAIN S \/ S[id] # id

\* REQUIRES(p,s) is unsatisfied exactly when p is selected and s is not;
\* INCOMPATIBLE_WITH(p,s) exactly when both are selected.
Unsatisfied(rule, S) ==
    \/ /\ rule.rule_type = "REQUIRES"
       /\ IsSelected(S, rule.primary_choice_str_id)
       /\ NotSelected(S, rule.secondary_choice_str_id)
    \/ /\ rule.rule_type = "INCOMPATIBLE_WITH"
       /\ IsSelected(S, rule.primary_choice_str_id)
       /\ IsSelected(S, rule.secondary_choice_str_id)

AllSatisfied(rules, S) == \A i \in 1..Len(rules) : ~Unsatisfied(rules[i], S)

\* A well-formed validateConfiguration / getAvailableOptions request on a
\* template the store holds has just been answered.
ValidateHandled ==
    /\ req.op = "validate-configuration"
    /\ "selections" \in DOMAIN req.body
    /\ req.template_str_id \in DOMAIN templates
AvailHandled ==
    /\ req.op = "available-options"
    /\ "currentSelections" \in DOMAIN req.body
    /\ req.template_str_id \in DOMAIN templates
ReqTemplate == templates[req.template_str_id]

\* C1: validateConfiguration returns isValid:true iff every stored rule is
\* satisfied (REQUIRES(p,s) unsatisfied exactly when p selected and s not,
\* INCOMPATIBLE_WITH(p,s) exactly when both selected), else isValid:false.
C1_ValidIffAllRulesSatisfied ==
    ValidateHandled =>
        /\ "is_valid" \in DOMAIN res.body
        /\ res.body.is_valid =
               AllSatisfied(ReqTemplate.compatibilityRules, req.body.selections)

\* C1 witness: a valid verdict on a template holding a REQUIRES rule whose
\* primary is selected, after an INCOMPATIBLE_WITH rule was stored too.
C1_Witness ==
    /\ ValidateHandled
    /\ res.status = 200 /\ res.body.is_valid
    /\ \E i \in 1..Len(ReqTemplate.compatibilityRules) :
          /\ ReqTemplate.compatibilityRules[i].rule_type = "REQUIRES"
          /\ IsSelected(req.body.selections,
                        ReqTemplate.compatibilityRules[i].primary_choice_str_id)
    /\ \E i \in 1..Len(ReqTemplate.compatibilityRules) :
          ReqTemplate.compatibilityRules[i].rule_type = "INCOMPATIBLE_WITH"

\* The price deltas under which choice id is stored in some category.
DeltasOf(template, id) ==
    UNION { { template.options[c][i].price_delta :
                i \in { i \in 1..Len(template.options[c]) :
                          template.options[c][i].choice_str_id = id } } :
            c \in DOMAIN template.options }

RECURSIVE SumOfDeltas(_, _)
\* The sum of the (single) price delta of every id in ids.
SumOfDeltas(template, ids) ==
    IF ids = {} THEN 0
    ELSE LET id == CHOOSE k \in ids : TRUE
         IN  (CHOOSE d \in DeltasOf(template, id) : TRUE)
                 + SumOfDeltas(template, ids \ {id})

\* The selected choices that exist as an option in some category.
PricedSelections(template, S) ==
    { id \in DOMAIN S : S[id] = id /\ DeltasOf(template, id) # {} }

\* C2: when all rules are satisfied, totalPrice = basePrice + the sum of
\* priceDelta over every selected choice (id mapped to itself) that exists as
\* an option in some category of the template, whatever the category (stated
\* where each such choice has one price in the catalog).
C2_PriceSumsSelectedChoices ==
    ( /\ ValidateHandled
      /\ res.status = 200
      /\ \A id \in DOMAIN req.body.selections :
             Cardinality(DeltasOf(ReqTemplate, id)) <= 1 )
    => res.body.total_price =
           ReqTemplate.base_price
             + SumOfDeltas(ReqTemplate, PricedSelections(ReqTemplate, req.body.selections))

\* S with choice c added as c -> c
WithChoice(S, c) == [k \in DOMAIN S \cup {c} |-> IF k = c THEN c ELSE S[k]]

\* C3: every choice returned by getAvailableOptions is compatible with the
\* current selections: adding it to them violates no INCOMPATIBLE_WITH rule.
C3_ReturnedChoicesCompatible ==
    (AvailHandled /\ res.status = 200) =>
        \A i \in 1..Len(res.body) :
            \A j \in 1..Len(ReqTemplate.compatibilityRules) :
                ReqTemplate.compatibilityRules[j].rule_type = "INCOMPATIBLE_WITH" =>
                    ~Unsatisfied(ReqTemplate.compatibilityRules[j],
                                 WithChoice(req.body.currentSelections,
                                            res.body[i].choice_str_id))

\* C4: getAvailableOptions retains a choice iff every rule of the template is
\* satisfied against currentSelections: the result is the whole category when
\* validateConfiguration on the same template and selections is valid, and
\* empty when it is invalid; filter and validator agree.
C4_FilterAgreesWithValidator ==
    AvailHandled =>
        LET S == req.body.currentSelections
            verdict == ValidateResponse(templates, req.template_str_id,
                                        [selections |-> S]).body.is_valid
            whole == MapSummaries(ObjectEntries(CategoryOptions(ReqTemplate, req.category)))
        IN  /\ verdict = AllSatisfied(ReqTemplate.compatibilityRules, S)
            /\ res.status = 200
            /\ res.body = IF verdict THEN whole ELSE <<>>

\* C4 witness: a non-empty category filtered to nothing by an invalid
\* selection whose violated rule is an INCOMPATIBLE_WITH rule.
C4_Witness ==
    /\ AvailHandled
    /\ CategoryOptions(ReqTemplate, req.category) # <<>>
    /\ res.body = <<>>
    /\ \E j \in 1..Len(ReqTemplate.compatibilityRules) :
          /\ ReqTemplate.compatibilityRules[j].rule_type = "INCOMPATIBLE_WITH"
          /\ Unsatisfied(ReqTemplate.compatibilityRules[j], req.body.currentSelections)

\* The message the claim prescribes for a violated rule.
ViolationMessage(rule) ==
    IF rule.rule_type = "REQUIRES"
    THEN <<"\"", rule.primary_choice_str_id, "\" requires \"",
           rule.secondary_choice_str_id, "\"">>
    ELSE <<"\"", rule.primary_choice_str_id, "\" is incompatible with \"",
           rule.secondary_choice_str_id, "\"">>

\* C5: when a rule is violated, validateConfiguration returns isValid:false
\* with exactly one message per violated rule occurrence, in the order the
\* rules were added, and no totalPrice.
C5_OneErrorPerViolationInOrder ==
    LET violated == SelectSeq(ReqTemplate.compatibilityRules,
                              LAMBDA r : Unsatisfied(r, req.body.selections))
    IN  (ValidateHandled /\ violated # <<>>) =>
            /\ res.status = 400
            /\ DOMAIN res.body = {"is_valid", "errors"}
            /\ res.body.is_valid = FALSE
            /\ Len(res.body.errors) = Len(violated)
            /\ \A i \in 1..Len(violated) :
                  res.body.errors[i] = ViolationMessage(violated[i])

\* C5 witness: two rules of different type violated at once, reported in
\* their stored order.
C5_Witness ==
    /\ ValidateHandled
    /\ res.status = 400
    /\ Len(res.body.errors) = 2
    /\ ReqTemplate.compatibilityRules[1].rule_type = "REQUIRES"
    /\ ReqTemplate.compatibilityRules[2].rule_type = "INCOMPATIBLE_WITH"
    /\ res.body.errors = <<ViolationMessage(ReqTemplate.compatibilityRules[1]),
                           ViolationMessage(ReqTemplate.compatibilityRules[2])>>

MutationOps == {"compatibility-rules", "set-base-price", "options"}
ReadOps == {"available-options", "validate-configuration"}

\* The fields the interface requires of each request.
RequiredOf(op) ==
    CASE op = "compatibility-rules" -> RuleFields
      [] op = "set-base-price" -> {"base_price"}
      [] op = "options" -> {"options"}
      [] op = "available-options" -> {"currentSelections"}
      [] op = "validate-configuration" -> {"selections"}
      [] OTHER -> {}

\* A request field that is absent, or is the empty string.
AbsentOrBlank(r, f) ==
    f \notin DOMAIN r.body \/ (f \in RuleFields /\ r.body[f] = "")
\* Every required field carries a value (a non-empty string, a non-zero
\* price, a mapping).
WellFormed(r) ==
    \A f \in RequiredOf(r.op) :
        ~AbsentOrBlank(r, f) /\ (f = "base_price" => r.body[f] # 0)

\* C6: a well-formed read on template id t returns not-found iff no mutation
\* has been acknowledged for t before it; every well-formed mutation succeeds
\* and leaves t in the store (creating the shell when t was absent).
C6_NotFoundIffNeverMutated ==
    /\ (req.op \in ReadOps /\ WellFormed(req)) =>
           (res.status = 404 <=> req.template_str_id \notin acked)
    /\ (req.op \in MutationOps /\ WellFormed(req)) =>
           (res.status = 200 /\ req.template_str_id \in DOMAIN templates)

\* C7: a mutation request in which a required field is missing (absent) or
\* empty (the empty string) returns a validation error and leaves the whole
\* store unchanged (no rule appended, no value overwritten, no shell created).
C7_AbsentOrBlankRejected ==
    [][ ( /\ req = NoRequest
          /\ req'.op \in MutationOps
          /\ \E f \in RequiredOf(req'.op) : AbsentOrBlank(req', f) )
        => ( /\ res'.status = 400
             /\ "error" \in DOMAIN res'.body
             /\ templates' = templates
             /\ protoProps' = protoProps ) ]_vars

\* C8: setBasePrice(t, p) is acknowledged for every numeric p >= 0 and
\* afterwards the template's basePrice equals p.
C8_SetBasePriceOverwrites ==
    ( /\ req.op = "set-base-price"
      /\ "base_price" \in DOMAIN req.body
      /\ req.body.base_price >= 0
      /\ req.template_str_id \notin InheritedKeys )
    => ( /\ res.status = 200
         /\ req.template_str_id \in DOMAIN templates
         /\ ReqTemplate.base_price = req.body.base_price )

\* C9: for every existing template, whatever its rules, validateConfiguration
\* with an empty selection set returns isValid:true with totalPrice equal to
\* the template's basePrice.
C9_EmptySelectionsValidAtBasePrice ==
    (ValidateHandled /\ DOMAIN req.body.selections = {}) =>
        /\ res.status = 200
        /\ DOMAIN res.body = {"is_valid", "total_price", "selections"}
        /\ res.body.is_valid = TRUE
        /\ res.body.total_price = ReqTemplate.base_price

\* C9 witness: an empty selection validated at a base price that was set, on
\* a template holding rules and options.
C9_Witness ==
    /\ ValidateHandled /\ DOMAIN req.body.selections = {}
    /\ Len(ReqTemplate.compatibilityRules) >= 1
    /\ ReqTemplate.compatibilityRules[1].rule_type = "REQUIRES"
    /\ DOMAIN ReqTemplate.options # {}
    /\ ReqTemplate.base_price = 100
    /\ res.body.total_price = 100

\* The summary of entry e of an option mapping.
SummaryOf(e) ==
    [choice_str_id |-> e.choice_str_id, name |-> e.name, price_delta |-> e.price_delta]

\* getAvailableOptions(t, c, {}) has just been answered for a category c
\* that addOptions has written.
RoundTripHandled ==
    /\ AvailHandled
    /\ DOMAIN req.body.currentSelections = {}
    /\ req.category \in DOMAIN ReqTemplate.options

\* C10 as stated: after addOptions(t, c, M), getAvailableOptions(t, c, {})
\* returns one summary per entry of M, with M's values, in M's insertion order.
C10_RoundTripInsertionOrder ==
    RoundTripHandled =>
        LET M == ReqTemplate.options[req.category]
        IN  /\ res.status = 200
            /\ Len(res.body) = Len(M)
            /\ \A i \in 1..Len(M) : res.body[i] = SummaryOf(M[i])

\* C10 amended: the result holds exactly one summary per entry of M, with
\* M's values, in the mapping's iteration order: integer-like choice ids
\* first, in ascending numeric order, then the other ids in insertion order.
C10_RoundTripIterationOrder ==
    RoundTripHandled =>
        LET M == ReqTemplate.options[req.category]
            pos(j) == CHOOSE i \in 1..Len(M) : res.body[j] = SummaryOf(M[i])
            idx(j) == ArrayIndex(res.body[j].choice_str_id)
        IN  /\ res.status = 200
            /\ Len(res.body) = Len(M)
            /\ \A i \in 1..Len(M) : \E j \in 1..Len(M) : res.body[j] = SummaryOf(M[i])
            /\ \A j1, j2 \in 1..Len(M) :
                  j1 < j2 =>
                     \/ idx(j1) >= 0 /\ idx(j2) >= 0 /\ idx(j1) < idx(j2)
                     \/ idx(j1) >= 0 /\ idx(j2) < 0
                     \/ idx(j1) < 0 /\ idx(j2) < 0 /\ pos(j1) < pos(j2)

\* C10 witness: on a template holding a rule, a mapping written as
\* {a, 1} is returned with the integer-like id first.
C10_Witness ==
    /\ RoundTripHandled
    /\ Len(ReqTemplate.compatibilityRules) >= 1
    /\ ReqTemplate.compatibilityRules[1].rule_type = "INCOMPATIBLE_WITH"
    /\ Len(res.body) = 2
    /\ ReqTemplate.options[req.category][1].choice_str_id = "a"
    /\ res.body[1].choice_str_id = "1"
    /\ res.body[2].choice_str_id = "a"

\* An acknowledged request of operation op is being answered in this step.
Acknowledges(op) ==
    /\ req = NoRequest
    /\ req'.op = op
    /\ res'.status = 200

\* Template id before the step, as the handler sees it after it has created
\* the missing shell.
Before(id) == IF id \in DOMAIN templates THEN templates[id] ELSE NewTemplate

\* C11: addOptions(t, c, M) replaces the entire option mapping of category c
\* with M (nothing of the previous mapping is merged) and leaves t's other
\* categories, its rules and its basePrice unchanged.  A category's mapping
\* is what template.options[category] yields.
C11_AddOptionsReplacesOneCategory ==
    [][ Acknowledges("options") =>
          LET t == req'.template_str_id
              c == req'.category
              M == req'.body.options
          IN  /\ t \in DOMAIN templates'
              /\ CategoryOptions(templates'[t], c) = M
              /\ \A other \in CategoryIds \ {c} :
                    CategoryOptions(templates'[t], other) = CategoryOptions(Before(t), other)
              /\ templates'[t].compatibilityRules = Before(t).compatibilityRules
              /\ templates'[t].base_price = Before(t).base_price ]_vars

\* Every element of sequence s occurs in sequence r.
ContainedIn(s, r) == \A j \in 1..Len(s) : \E i \in 1..Len(r) : r[i] = s[j]

\* C12: filtering monotonicity: for a fixed template, category, option
\* mapping and currentSelections, the result of getAvailableOptions after a
\* further addCompatibilityRule is contained in the result before it; adding
\* a rule never makes a filtered-out choice reappear.
C12_AddingRulesOnlyShrinksResult ==
    [][ (Acknowledges("compatibility-rules") /\ req'.template_str_id \in DOMAIN templates) =>
          LET t == req'.template_str_id
          IN  /\ templates'[t].options = templates[t].options
              /\ \A cat \in CategoryIds, S \in SelectionMaps :
                    ContainedIn(validOptions(templates'[t], cat, S),
                                validOptions(templates[t], cat, S)) ]_vars

\* The template of the request as it was before its acknowledged
\* addCompatibilityRule appended the last rule.
WithoutLastRule ==
    [ReqTemplate EXCEPT !.compatibilityRules = SubSeq(@, 1, Len(@) - 1)]

\* C12 witness: a rule was just added to a template that already held a rule
\* and two options; for some selections both options were returned before and
\* none is returned now.
C12_Witness ==
    /\ req.op = "compatibility-rules" /\ res.status = 200
    /\ Len(ReqTemplate.compatibilityRules) = 2
    /\ \E cat \in CategoryIds, S \in SelectionMaps :
          /\ Len(validOptions(WithoutLastRule, cat, S)) = 2
          /\ validOptions(ReqTemplate, cat, S) = <<>>

\* C13: getAvailableOptions and validateConfiguration are pure readers:
\* whatever the outcome (a result, an invalid configuration, a validation
\* error, not-found), the store is identical before and after the request; in
\* particular a read of an unknown template does not create it.
C13_ReadsLeaveStoreUnchanged ==
    [][ (req = NoRequest /\ req'.op \in ReadOps) =>
          /\ templates' = templates
          /\ protoProps' = protoProps
          /\ (req'.template_str_id \notin DOMAIN templates
                 => req'.template_str_id \notin DOMAIN templates') ]_vars

\* C13 witness: a well-formed read of the unknown template t1 was answered
\* not-found while the store, already written (a polluted prototype), still
\* has no template t1.
C13_Witness ==
    /\ req.op \in ReadOps
    /\ req.template_str_id = "t1"
    /\ res.status = 404
    /\ "t1" \notin DOMAIN templates
    /\ protoProps # EmptyObject

\* The selection context of the read request being answered.
ReqSelections ==
    IF req.op = "validate-configuration" THEN req.body.selections
    ELSE req.body.currentSelections

\* The primary choice of the rule was never added as an option, in any
\* category, of the template of the request.
PrimaryNeverAdded(rule) ==
    rule.primary_choice_str_id \notin addedChoices[req.template_str_id]

\* The rules of the request's template whose primary choice was never added
\* contribute nothing to the answer: no error message is theirs, and the
\* options returned are those the other rules alone let through.
NeverAddedRulesInert ==
    /\ ValidateHandled =>
          \A i \in 1..Len(ReqTemplate.compatibilityRules) :
             (PrimaryNeverAdded(ReqTemplate.compatibilityRules[i]) /\ res.status = 400) =>
                 \A k \in 1..Len(res.body.errors) :
                    res.body.errors[k] # ViolationMessage(ReqTemplate.compatibilityRules[i])
    /\ AvailHandled =>
          /\ res.status = 200
          /\ res.body =
                validOptions([ReqTemplate EXCEPT !.compatibilityRules =
                                 SelectSeq(@, LAMBDA r : ~PrimaryNeverAdded(r))],
                             req.category, req.body.currentSelections)

\* C14 as stated: a rule whose primary choice id was never added as an option
\* in any category of the template is never triggered: for every selection
\* context a caller can submit it produces no validation error and filters
\* out no option.
C14_NeverAddedPrimaryNeverTriggers ==
    (ValidateHandled \/ AvailHandled) => NeverAddedRulesInert

\* Every choice the selection context selects (a key mapped to itself) was
\* added as an option of the request's template.
SelectsOnlyAddedChoices ==
    \A k \in DOMAIN ReqSelections :
        ReqSelections[k] = k => k \in addedChoices[req.template_str_id]

\* C14 amended: such a rule is not triggered by any selection context that
\* selects only choices that were added as options of the template; it then
\* produces no validation error and filters out no option.
C14_NeverAddedPrimaryInertForAddedSelections ==
    ((ValidateHandled \/ AvailHandled) /\ SelectsOnlyAddedChoices) => NeverAddedRulesInert

\* C14 witness: a REQUIRES rule whose primary was never added, whose
\* secondary is not selected, and a selection of an added choice: the
\* configuration is valid.
C14_Witness ==
    /\ ValidateHandled
    /\ SelectsOnlyAddedChoices
    /\ \E k \in DOMAIN ReqSelections : ReqSelections[k] = k
    /\ \E i \in 1..Len(ReqTemplate.compatibilityRules) :
          /\ PrimaryNeverAdded(ReqTemplate.compatibilityRules[i])
          /\ ReqTemplate.compatibilityRules[i].rule_type = "REQUIRES"
          /\ NotSelected(ReqSelections, ReqTemplate.compatibilityRules[i].secondary_choice_str_id)
    /\ res.status = 200
    /\ res.body.is_valid

\* The rule never blocks for selections S: its primary choice is not selected,
\* or its type is neither REQUIRES nor INCOMPATIBLE_WITH.
NeverBlocks(rule, S) ==
    \/ NotSelected(S, rule.primary_choice_str_id)
    \/ rule.rule_type \notin {"REQUIRES", "INCOMPATIBLE_WITH"}

\* C15: a rule never blocks when its primary choice is not selected (the key
\* is absent or maps to another value), for every rule type; and a rule whose
\* type is neither REQUIRES nor INCOMPATIBLE_WITH never blocks for any
\* selections: it adds no validation error, and the options returned are
\* those the other rules alone let through.
C15_UnselectedPrimaryOrUnknownTypeNeverBlocks ==
    /\ ValidateHandled =>
          LET rules == ReqTemplate.compatibilityRules
              blocking == SelectSeq(rules, LAMBDA r : ~NeverBlocks(r, req.body.selections))
          IN  /\ (blocking = <<>>) => (res.status = 200 /\ res.body.is_valid)
              /\ (res.status = 400) =>
                     /\ Len(res.body.errors) <= Len(blocking)
                     /\ \A k \in 1..Len(res.body.errors) :
                           \E i \in 1..Len(blocking) :
                              res.body.errors[k] = ViolationMessage(blocking[i])
    /\ AvailHandled =>
          /\ res.status = 200
          /\ res.body =
                validOptions([ReqTemplate EXCEPT !.compatibilityRules =
                                 SelectSeq(@, LAMBDA r :
                                              ~NeverBlocks(r, req.body.currentSelections))],
                             req.category, req.body.currentSelections)

\* The template of the request holds a rule of an unknown type whose primary
\* is selected in S, and an INCOMPATIBLE_WITH rule whose primary key maps to
\* another value in S while its secondary is selected.
C15_Shape(S) ==
    /\ Len(ReqTemplate.compatibilityRules) = 2
    /\ \E i, j \in 1..2 :
          LET other == ReqTemplate.compatibilityRules[i]
              incompatible == ReqTemplate.compatibilityRules[j]
          IN  /\ other.rule_type = "OTHER"
              /\ IsSelected(S, other.primary_choice_str_id)
              /\ incompatible.rule_type = "INCOMPATIBLE_WITH"
              /\ incompatible.primary_choice_str_id \in DOMAIN S
              /\ S[incompatible.primary_choice_str_id] # incompatible.primary_choice_str_id
              /\ IsSelected(S, incompatible.secondary_choice_str_id)

\* C15 witness: both options of a category are returned although the template
\* holds two such rules.
C15_Witness ==
    /\ AvailHandled
    /\ C15_Shape(req.body.currentSelections)
    /\ Len(res.body) = 2

\* Sequence s is a prefix of sequence r.
IsPrefix(s, r) == Len(s) <= Len(r) /\ SubSeq(r, 1, Len(s)) = s

\* This step acknowledges the addition of a REQUIRES rule that the template
\* of the request already contains.
AddsDuplicateRequires ==
    /\ Acknowledges("compatibility-rules")
    /\ req'.body.rule_type = "REQUIRES"
    /\ req'.template_str_id \in DOMAIN templates
    /\ \E i \in 1..Len(templates[req'.template_str_id].compatibilityRules) :
          templates[req'.template_str_id].compatibilityRules[i] = RuleOf(req'.body)

\* C16: REQUIRES idempotence: adding a REQUIRES rule that the template already
\* contains leaves, for every selections, the isValid verdict of
\* validateConfiguration, the totalPrice of a valid result and the
\* getAvailableOptions result unchanged; only the error list of an invalid
\* result may grow, by duplicates of messages already present.
C16_DuplicateRequiresChangesNoOutcome ==
    [][ AddsDuplicateRequires =>
          LET t == req'.template_str_id
          IN  \A S \in SelectionMaps :
                 LET before == ValidateResponse(templates, t, [selections |-> S])
                     after == ValidateResponse(templates', t, [selections |-> S])
                 IN  /\ after.status = before.status
                     /\ after.body.is_valid = before.body.is_valid
                     /\ before.status = 200 => after.body = before.body
                     /\ before.status = 400 =>
                           /\ IsPrefix(before.body.errors, after.body.errors)
                           /\ ContainedIn(after.body.errors, before.body.errors)
                     /\ \A cat \in CategoryIds :
                           AvailableOptionsResponse(templates', t, cat, [currentSelections |-> S])
                             = AvailableOptionsResponse(templates, t, cat, [currentSelections |-> S])
      ]_vars

\* C16 witness: REQUIRES(a,1) was just added a second time to a template with
\* options and a base price; selecting a alone is answered with the
\* message twice, selecting nothing with the base price.
C16_Witness ==
    /\ req.op = "compatibility-rules" /\ res.status = 200
    /\ ReqTemplate.compatibilityRules = <<RuleOf(req.body), RuleOf(req.body)>>
    /\ req.body.rule_type = "REQUIRES"
    /\ DOMAIN ReqTemplate.options # {}
    /\ LET invalid == ValidateResponse(templates, req.template_str_id,
                                       [selections |-> [k \in {"a"} |-> "a"]])
       IN  invalid.status = 400 /\ Len(invalid.body.errors) = 2
    /\ ValidateResponse(templates, req.template_str_id,
                        [selections |-> EmptyObject]).status = 200

\* C17: in every reachable state, each template's rule sequence is exactly the
\* sequence of rules of the acknowledged addCompatibilityRule requests for
\* that template, in request order; no operation removes, reorders,
\* deduplicates or rewrites a stored rule.
C17_RulesAreTheAcknowledgedRequests ==
    \A t \in TemplateIds :
        IF t \in DOMAIN templates
        THEN /\ Len(templates[t].compatibilityRules) = Len(ruleLog[t])
             /\ \A i \in 1..Len(ruleLog[t]) :
                   /\ templates[t].compatibilityRules[i].rule_type = ruleLog[t][i].rule_type
                   /\ templates[t].compatibilityRules[i].primary_choice_str_id
                         = ruleLog[t][i].primary_choice_str_id
                   /\ templates[t].compatibilityRules[i].secondary_choice_str_id
                         = ruleLog[t][i].secondary_choice_str_id
        ELSE ruleLog[t] = <<>>

\* C17 witness: setBasePrice was just acknowledged on a template holding two
\* different rules, still in the order they were added.
C17_Witness ==
    /\ req.op = "set-base-price" /\ res.status = 200
    /\ req.template_str_id = "t1"
    /\ Len(templates["t1"].compatibilityRules) = 2
    /\ templates["t1"].compatibilityRules[1].primary_choice_str_id = "1"
    /\ templates["t1"].compatibilityRules[2].primary_choice_str_id = "a"
    /\ templates["t1"].compatibilityRules[2].secondary_choice_str_id = "1"

\* What the store holds for template id u: its rules, options and base
\* price, or Null when there is no such template.
StoredTemplate(u) == IF u \in DOMAIN templates THEN templates[u] ELSE Null

\* The answers every well-formed read addressed to template id u would get
\* in the current state.
ReadResults(u) ==
    [ available |->
          [cat \in CategoryIds |->
              [S \in SelectionMaps |->
                  AvailableOptionsResponse(templates, u, cat, [currentSelections |-> S])]],
      validated |->
          [S \in SelectionMaps |-> ValidateResponse(templates, u, [selections |-> S])] ]

\* C18: templates are independent: an operation addressed to template id t
\* leaves the rules, options and base price of every other template id
\* unchanged, so that the results of getAvailableOptions and
\* validateConfiguration on another template are the same after it as before.
C18_TemplatesIndependent ==
    [][ (req = NoRequest /\ req' # NoRequest) =>
          \A u \in TemplateIds \ {req'.template_str_id} :
             /\ StoredTemplate(u)' = StoredTemplate(u)
             /\ ReadResults(u)' = ReadResults(u) ]_vars

\* The field of the selection context a read operation requires.
SelectionField(op) ==
    IF op = "available-options" THEN "currentSelections" ELSE "selections"

\* C19: error precedence on reads: a getAvailableOptions request without
\* currentSelections, or a validateConfiguration request without selections,
\* returns the validation error whether or not the template exists; the
\* not-found error is returned only for a well-formed request on an unknown
\* template; a request never yields both.
C19_ValidationErrorBeforeNotFound ==
    req.op \in ReadOps =>
        /\ SelectionField(req.op) \notin DOMAIN req.body =>
              /\ res.status = 400
              /\ res.body = [error |-> <<"Missing required fields: ",
                                         <<SelectionField(req.op)>>>>]
        /\ res.status = 404 =>
              /\ SelectionField(req.op) \in DOMAIN req.body
              /\ req.template_str_id \notin DOMAIN templates
              /\ req.template_str_id \notin acked
              /\ res.body = [error |-> "Template not found."]

\* C19 witness: a validateConfiguration request without selections, addressed
\* to a template that exists, was answered with the validation error.
C19_Witness ==
    /\ req.op = "validate-configuration"
    /\ "selections" \notin DOMAIN req.body
    /\ req.template_str_id \in DOMAIN templates
    /\ res.status = 400
    /\ "error" \in DOMAIN res.body

\* The rule with its two choice ids exchanged.
Reversed(rule) ==
    [rule EXCEPT !.primary_choice_str_id = rule.secondary_choice_str_id,
                 !.secondary_choice_str_id = rule.primary_choice_str_id]

\* The store in which rule i of the request's template is replaced by its
\* reversal.
WithRuleReversed(i) ==
    Put(templates, req.template_str_id,
        [ReqTemplate EXCEPT !.compatibilityRules[i] = Reversed(@)])

IsSelfRule(rule, type) ==
    /\ rule.rule_type = type
    /\ rule.primary_choice_str_id = rule.secondary_choice_str_id

\* C20: INCOMPATIBLE_WITH is symmetric in effect: for every selection map,
\* replacing a stored rule INCOMPATIBLE_WITH(p,s) by INCOMPATIBLE_WITH(s,p)
\* changes neither the isValid verdict nor the getAvailableOptions result;
\* INCOMPATIBLE_WITH(a,a) makes every selection that selects a invalid, and
\* REQUIRES(a,a) is satisfied by every selection (it yields no error).
C20_IncompatibleWithIsSymmetric ==
    /\ ValidateHandled =>
          \A i \in 1..Len(ReqTemplate.compatibilityRules) :
             LET rule == ReqTemplate.compatibilityRules[i]
                 reversed == ValidateResponse(WithRuleReversed(i), req.template_str_id, req.body)
             IN  /\ rule.rule_type = "INCOMPATIBLE_WITH" =>
                       /\ reversed.status = res.status
                       /\ reversed.body.is_valid = res.body.is_valid
                 /\ ( /\ IsSelfRule(rule, "INCOMPATIBLE_WITH")
                      /\ IsSelected(req.body.selections, rule.primary_choice_str_id) ) =>
                       /\ res.status = 400
                       /\ res.body.is_valid = FALSE
                 /\ (IsSelfRule(rule, "REQUIRES") /\ res.status = 400) =>
                       \A k \in 1..Len(res.body.errors) :
                          res.body.errors[k] # ViolationMessage(rule)
    /\ AvailHandled =>
          \A i \in 1..Len(ReqTemplate.compatibilityRules) :
             ReqTemplate.compatibilityRules[i].rule_type = "INCOMPATIBLE_WITH" =>
                 AvailableOptionsResponse(WithRuleReversed(i), req.template_str_id,
                                          req.category, req.body) = res
    /\ (ValidateHandled /\ \A i \in 1..Len(ReqTemplate.compatibilityRules) :
                              IsSelfRule(ReqTemplate.compatibilityRules[i], "REQUIRES")) =>
          res.status = 200 /\ res.body.is_valid

\* C20 witness: the template holds INCOMPATIBLE_WITH(a,1) and REQUIRES(a,a);
\* a selection of both a and 1 is invalid with the one message of the
\* INCOMPATIBLE_WITH rule.
C20_Witness ==
    /\ ValidateHandled
    /\ Len(ReqTemplate.compatibilityRules) = 2
    /\ \E i, j \in 1..2 :
          /\ ReqTemplate.compatibilityRules[i] = RuleBody("INCOMPATIBLE_WITH", "a", "1")
          /\ ReqTemplate.compatibilityRules[j] = RuleBody("REQUIRES", "a", "a")
    /\ IsSelected(req.body.selections, "a")
    /\ IsSelected(req.body.selections, "1")
    /\ res.status = 400
    /\ Len(res.body.errors) = 1

====
